---- MODULE Spec2Model ----
(***************************************************************************)
(* Jarvis Chat API (kiluazen/sythioBackend): the streaming endpoint        *)
(* stream_message and its generator generate_stream (main.py), the         *)
(* persistence gateway DatabaseService (database.py) and the completion    *)
(* adapter AIService (ai_service.py).                                      *)
(*                                                                         *)
(* The server is one asyncio process (run.py).  The supabase client used   *)
(* by database.py is the synchronous one: a DatabaseService method has no  *)
(* suspension point, so a handler runs atomically from one real await      *)
(* (an OpenAI call, a yield to the response, asyncio.sleep) to the next.   *)
(* Each action below is one such segment.                                  *)
(***************************************************************************)
EXTENDS Integers, Sequences, FiniteSets, TLC

\* ------------------------------------------------------------------ bounds
\* chunks the completion API delivers to one stream before it ends or fails
MaxChunks == 2
\* messages chat 1 holds before the request
MaxPrior == 2
\* rows of table chats when GET /api/chats is studied
MaxListChats == 52
\* chats POST /api/chats adds
MaxCreated == 1

\* ------------------------------------------------------------ program text
\* the checkpoint period of generate_stream
CheckpointEvery == 50
\* .limit(50) of get_chats
PageSize == 50

\* the requests to POST /api/chats/{chat_id}/stream
Turns == {"t1"}
\* the chats 1 and 2 exist at start, no chat 0 ever does
ChatIds == {1, 2}
RequestChatIds == ChatIds \cup {0}
RequestContents == {"", "hello"}

Tok48 == "the quick brown fox jumps over the lazy dog 0123"
Tokens == {"", "Hi", Tok48}

\* str(e) of the failures the collaborators raise
StoreErr == "store unavailable"
ApiErr == "upstream failed"
UpdateMissingErr == "Failed to update message"
AiUnavailableErr == "AI service not available - OpenAI API key not configured"

VARIABLES
    chats,        \* table chats: [id -> row]
    messages,     \* table messages, in creation order
    nextId,       \* next server-assigned message id
    aiConfigured, \* settings.OPENAI_API_KEY is set (ai_service is not None)
    pc,           \* each request's position
    req,          \* each request's (chat_id, content)
    status,       \* HTTP status of the response, 0 while none
    mid,          \* assistant_message.id, 0 while none
    context,      \* context_messages
    sent,         \* the messages handed to chat.completions.create, None
                  \* while the request has not been made
    acc,          \* accumulated_content
    err,          \* str(e) in the except block of generate_stream
    srcTokens,    \* contents the completion API has delivered to the stream
    srcState,     \* "closed", "open", "ended", "failed"
    chunks,       \* chunks the completion API has delivered
    adapterDone,  \* generate_streaming_response has yielded its apology
    log,          \* each request's store calls and stream events, in order
    prior,        \* messages the chat held when the request arrived
    titleTask,    \* "none", "scheduled", "done"
    titleCall,    \* the generate_chat_title call of the task: None, or
                  \* Some([answer, ret]): what the completion answered and
                  \* what the method returned (None when it raised)
    titleRaised,  \* generate_and_update_title let an exception escape
    listed,       \* the last answer of GET /api/chats: <<status, rows>>
    answered      \* the last answer of GET or DELETE /api/chats/{chat_id}

storeVars == <<chats, messages, nextId>>
turnVars == <<pc, req, status, mid, context, sent, acc, err, srcTokens, srcState,
              chunks, adapterDone, log, prior>>
titleVars == <<titleTask, titleCall, titleRaised>>
respVars == <<listed, answered>>
vars == <<storeVars, aiConfigured, turnVars, titleVars, respVars>>

\* ------------------------------------------------------------------ values
None == <<>>
Some(x) == <<x>>

\* a row of table chats
Chat(id, title, updated_at) ==
    [id |-> id, title |-> title, user_id |-> "demo-user", updated_at |-> updated_at]

\* a row of table messages
Row(id, chat_id, role, content, is_streaming) ==
    [id |-> id, chat_id |-> chat_id, role |-> role, content |-> content,
     is_streaming |-> is_streaming]

\* one entry of a request's log: a store call or a stream event
LogInsert(m, role, content, is_streaming, ok) ==
    [op |-> "insert", kind |-> role, content |-> content, message_id |-> m,
     is_streaming |-> is_streaming, ok |-> ok]
LogFetch(ok) ==
    [op |-> "fetch", kind |-> "", content |-> "", message_id |-> 0,
     is_streaming |-> FALSE, ok |-> ok]
LogWrite(m, content, is_streaming, ok) ==
    [op |-> "write", kind |-> "", content |-> content, message_id |-> m,
     is_streaming |-> is_streaming, ok |-> ok]
\* the entry of an update_message_content call with result w: a call that
\* raised after the store had applied it is of kind "lost"
LogUpdate(m, content, is_streaming, w) ==
    [LogWrite(m, content, is_streaming, ~w.raised)
        EXCEPT !.kind = IF w.raised /\ w.applied THEN "lost" ELSE ""]
\* json.dumps({'type': ..., 'content': ..., 'message_id': ...})
StreamEvent(type, content, m) ==
    [op |-> "event", kind |-> type, content |-> content, message_id |-> m,
     is_streaming |-> FALSE, ok |-> TRUE]

Raised(e, rows) == [raised |-> TRUE, e |-> e, rows |-> rows]
Returned(rows) == [raised |-> FALSE, e |-> "", rows |-> rows]

\* ------------------------------------------------------- DatabaseService
\* `up` is whether the store answers the call; a call it does not answer
\* raises inside the method.

\* get_chat that answers a row for every id
get_chat_AnyId(cs, chat_id, up) ==
    Some([id |-> chat_id, title |-> "New Chat", user_id |-> "demo-user",
          updated_at |-> 0])

\* get_chat: .single() raises on no row; every exception becomes None
get_chat(cs, chat_id, up) ==
    IF up /\ chat_id \in DOMAIN cs THEN Some(cs[chat_id]) ELSE None

\* get_messages without .eq("chat_id", chat_id)
get_messages_AllChats(ms, chat_id) == ms

\* get_messages: the chat's rows ordered by created_at, the order of insertion
get_messages(ms, chat_id) ==
    SelectSeq(ms, LAMBDA m : m.chat_id = chat_id)

\* create_message: one inserted row, with the server-assigned id
create_message(ms, id, chat_id, role, content, is_streaming, up) ==
    IF up
    THEN Returned(Append(ms, Row(id, chat_id, role, content, is_streaming)))
    ELSE Raised(StoreErr, ms)

HasRow(ms, message_id) == \E i \in DOMAIN ms : ms[i].id = message_id

\* how a store write can go: the store applies it and answers ("ok"), the
\* request does not reach the store ("down"), or the store applies it and
\* its answer does not reach the client ("lost")
StoreAnswers == {"ok", "down", "lost"}

\* an update that is not restricted to the row of message_id: it changes
\* every assistant row still in progress
update_message_content_AllInProgress(ms, message_id, content, is_streaming, up) ==
    [raised |-> up # "ok", e |-> IF up = "ok" THEN "" ELSE StoreErr,
     applied |-> up # "down",
     rows |-> IF up = "down" THEN ms
              ELSE [i \in DOMAIN ms |->
                      IF ms[i].role = "assistant" /\ ms[i].is_streaming
                      THEN [ms[i] EXCEPT !.content = content,
                                         !.is_streaming = is_streaming]
                      ELSE ms[i]]]

\* update_message_content: raises when the call fails or no row was updated;
\* `applied` is whether the store has updated the row
update_message_content(ms, message_id, content, is_streaming, up) ==
    LET updated == [i \in DOMAIN ms |->
            IF ms[i].id = message_id
            THEN [ms[i] EXCEPT !.content = content, !.is_streaming = is_streaming]
            ELSE ms[i]]
    IN  IF up = "down"
        THEN [raised |-> TRUE, e |-> StoreErr, rows |-> ms, applied |-> FALSE]
        ELSE IF ~HasRow(ms, message_id)
        THEN [raised |-> TRUE, rows |-> ms, applied |-> FALSE,
              e |-> IF up = "lost" THEN StoreErr ELSE UpdateMissingErr]
        ELSE IF up = "lost"
        THEN [raised |-> TRUE, e |-> StoreErr, rows |-> updated, applied |-> TRUE]
        ELSE [raised |-> FALSE, e |-> "", rows |-> updated, applied |-> TRUE]

\* .order("updated_at", desc=True): rows of equal updated_at come in an order
\* the store chooses, here by id, ascending or descending
ComesBefore(a, b, tieAsc) ==
    \/ a.updated_at > b.updated_at
    \/ /\ a.updated_at = b.updated_at
       /\ IF tieAsc THEN a.id < b.id ELSE a.id > b.id

\* the rows of cs in that order: a row's place is one more than the number
\* of rows that come before it
OrderByUpdatedDesc(cs, tieAsc) ==
    LET place == [i \in DOMAIN cs |->
                     1 + Cardinality({j \in DOMAIN cs :
                                         ComesBefore(cs[j], cs[i], tieAsc)})]
    IN  [k \in 1..Cardinality(DOMAIN cs) |->
            cs[CHOOSE i \in DOMAIN cs : place[i] = k]]

\* .limit(n)
Limit(rows, n) == SubSeq(rows, 1, IF Len(rows) < n THEN Len(rows) ELSE n)

\* get_chats without .limit(50)
get_chats_NoLimit(cs, ms, up, tieAsc) ==
    IF ~up THEN Raised(StoreErr, <<>>)
    ELSE Returned(SelectSeq(OrderByUpdatedDesc(cs, tieAsc),
                            LAMBDA c : Len(get_messages(ms, c.id)) > 0))

\* get_chats: the user's chats by updated_at descending, at most 50, then
\* those of them that have a message
get_chats(cs, ms, up, tieAsc) ==
    IF ~up THEN Raised(StoreErr, <<>>)
    ELSE Returned(SelectSeq(Limit(OrderByUpdatedDesc(cs, tieAsc), PageSize),
                            LAMBDA c : Len(get_messages(ms, c.id)) > 0))

\* update_chat_title: raises when the store fails or no row was updated
update_chat_title(cs, chat_id, title, up) ==
    IF ~up THEN Raised(StoreErr, cs)
    ELSE IF chat_id \notin DOMAIN cs THEN Raised("Failed to update chat title", cs)
    ELSE Returned([cs EXCEPT ![chat_id].title = title])

\* delete_chat: True when a row was deleted, False on none and on any exception
delete_chat(cs, chat_id, up) == up /\ chat_id \in DOMAIN cs

\* --------------------------------------------------------------- AIService
\* the token generate_streaming_response yields from its except block
Apology(e) ==
    "I apologize, but I'm experiencing some technical difficulties right now. Error: "
        \o e

\* self.system_prompt
SystemPrompt == [role |-> "system", content |-> "You are Jarvis"]

\* _prepare_messages_for_openai: the system prompt, then role and content of
\* each message, in the order given
PrepareMessagesForOpenai(chat_messages) ==
    <<SystemPrompt>> \o
    [i \in DOMAIN chat_messages |->
        [role |-> chat_messages[i].role, content |-> chat_messages[i].content]]

\* the `messages` argument generate_streaming_response builds for
\* chat.completions.create
CompletionMessages(chat_messages, user_message) ==
    Append(PrepareMessagesForOpenai(chat_messages),
           [role |-> "user", content |-> user_message])

RECURSIVE LStrip(_, _)
LStrip(s, cs) ==
    IF Len(s) > 0 /\ SubSeq(s, 1, 1) \in cs
    THEN LStrip(SubSeq(s, 2, Len(s)), cs) ELSE s
RECURSIVE RStrip(_, _)
RStrip(s, cs) ==
    IF Len(s) > 0 /\ SubSeq(s, Len(s), Len(s)) \in cs
    THEN RStrip(SubSeq(s, 1, Len(s) - 1), cs) ELSE s
\* str.strip(chars)
Strip(s, cs) == RStrip(LStrip(s, cs), cs)
Whitespace == {" "}
Quotes == {"\"", "'"}

\* what the title completion may answer: message.content, or None
TitleContents == {Some("Trip plan"), Some(" \"Trip plan\" "), Some(""),
                  Some("\"\""), None}

\* generate_chat_title without its except clause
generate_chat_title_NoExcept(answer) ==
    IF answer = None THEN Raised(ApiErr, "")
    ELSE IF answer[1] = None THEN Raised("'NoneType' object has no attribute 'strip'", "")
    ELSE LET title == Strip(Strip(answer[1][1], Whitespace), Quotes)
         IN  Returned(IF title # "" THEN title ELSE "New Chat")

\* generate_chat_title: `answer` is None when the completion call raised,
\* else Some(message.content)
generate_chat_title(answer) ==
    IF answer = None THEN Returned("New Chat")
    ELSE IF answer[1] = None THEN Returned("New Chat")
    ELSE LET title == Strip(Strip(answer[1][1], Whitespace), Quotes)
         IN  Returned(IF title # "" THEN title ELSE "New Chat")

\* -------------------------------------------------------------- models.py
\* MessageCreate: content: str = Field(..., min_length=1)
MessageCreateValid(content) == Len(content) >= 1

\* ---------------------------------------------------------------- main.py
\* The status a raised exception becomes.  FastAPI looks a handler up by the
\* exception's class, most specific first: its own handlers for HTTPException
\* and for the request-validation error come before the handlers main.py
\* registers for ValueError and Exception.
ExceptionStatus(exc) ==
    CASE exc = "RequestValidationError" -> 422
      [] exc = "ValueError" -> 400
      [] OTHER -> 500

\* context_messages that keeps the placeholder
ContextMessages_KeepPlaceholder(existing_messages, assistant_id) ==
    existing_messages

\* context_messages: the fetched rows without the placeholder
ContextMessages(existing_messages, assistant_id) ==
    SelectSeq(existing_messages, LAMBDA m : m.id # assistant_id)

\* a title for every turn that follows completed turns only
IsFirstUserMessage_OddLength(context_messages) ==
    Len(context_messages) % 2 = 1

\* "Generate title for first message"
IsFirstUserMessage(context_messages) == Len(context_messages) = 1

\* a checkpoint whenever a full period has been accumulated
CheckpointDue_AtLeast(accumulated_content) ==
    Len(accumulated_content) >= CheckpointEvery

\* "Update database periodically"
CheckpointDue(accumulated_content) ==
    Len(accumulated_content) % CheckpointEvery = 0

\* the content of the error event
ErrorEventContent(e) == "Error: " \o e
\* the content the except block stores
ErrorNote(e) == "I apologize, but I encountered an error: " \o e

\* ------------------------------------------------------------------- Init
PriorRows(chat_id, n, firstId) ==
    [i \in 1..n |->
        Row(firstId + i - 1, chat_id,
            IF i % 2 = 1 THEN "user" ELSE "assistant",
            IF i % 2 = 1 THEN "earlier" ELSE "reply", FALSE)]



\* chat 2 holds one finished turn; chat 1 holds 0..MaxPrior messages
Init ==
    /\ chats = [c \in ChatIds |-> Chat(c, "New Chat", c)]
    /\ \E p \in 0..MaxPrior :
          /\ messages = PriorRows(2, 2, 1) \o PriorRows(1, p, 3)
          /\ nextId = 3 + p
    /\ aiConfigured \in BOOLEAN
    /\ pc = [t \in Turns |-> "idle"]
    /\ req = [t \in Turns |-> [chat_id |-> 0, content |-> ""]]
    /\ status = [t \in Turns |-> 0]
    /\ mid = [t \in Turns |-> 0]
    /\ context = [t \in Turns |-> <<>>]
    /\ sent = [t \in Turns |-> None]
    /\ acc = [t \in Turns |-> ""]
    /\ err = [t \in Turns |-> ""]
    /\ srcTokens = [t \in Turns |-> <<>>]
    /\ srcState = [t \in Turns |-> "closed"]
    /\ chunks = [t \in Turns |-> 0]
    /\ adapterDone = [t \in Turns |-> FALSE]
    /\ log = [t \in Turns |-> <<>>]
    /\ prior = [t \in Turns |-> 0]
    /\ titleTask = [t \in Turns |-> "none"]
    /\ titleCall = [t \in Turns |-> None]
    /\ titleRaised = [t \in Turns |-> FALSE]
    /\ listed = None
    /\ answered = None

\* --------------------------------------------------------- stream_message
\* The handler up to `return StreamingResponse(...)`.  failAt = i: the i-th
\* store call (get_chat, create_message, create_message, get_messages) is
\* not answered; 0: all are.
stream_message(cs, ms, id, chat_id, content, failAt) ==
    LET chat == get_chat(cs, chat_id, failAt # 1)
        user == create_message(ms, id, chat_id, "user", content, FALSE, failAt # 2)
        asst == create_message(user.rows, id + 1, chat_id, "assistant", "", TRUE,
                               failAt # 3)
        existing_messages == get_messages(asst.rows, chat_id)
        context_messages == ContextMessages(existing_messages, id + 1)
        none == [status |-> 0, messages |-> ms, nextId |-> id, mid |-> 0,
                 context |-> <<>>, log |-> <<>>, title |-> FALSE]
    IN  IF ~MessageCreateValid(content)
        THEN [none EXCEPT !.status = ExceptionStatus("RequestValidationError")]
        ELSE IF chat = None
        THEN [none EXCEPT !.status = 404]
        ELSE IF user.raised
        THEN [none EXCEPT !.status = 500,
                          !.log = <<LogInsert(0, "user", content, FALSE, FALSE)>>]
        ELSE IF asst.raised
        THEN [none EXCEPT !.status = 500,
                          !.messages = user.rows, !.nextId = id + 1,
                          !.log = <<LogInsert(id, "user", content, FALSE, TRUE),
                                    LogInsert(0, "assistant", "", TRUE, FALSE)>>]
        ELSE IF failAt = 4
        THEN [none EXCEPT !.status = 500,
                          !.messages = asst.rows, !.nextId = id + 2,
                          !.log = <<LogInsert(id, "user", content, FALSE, TRUE),
                                    LogInsert(id + 1, "assistant", "", TRUE, TRUE),
                                    LogFetch(FALSE)>>]
        ELSE [status |-> 200, messages |-> asst.rows, nextId |-> id + 2,
              mid |-> id + 1, context |-> context_messages,
              log |-> <<LogInsert(id, "user", content, FALSE, TRUE),
                        LogInsert(id + 1, "assistant", "", TRUE, TRUE),
                        LogFetch(TRUE)>>,
              title |-> IsFirstUserMessage(context_messages)]

StreamMessage(t) ==
    /\ pc[t] = "idle"
    /\ \E chat_id \in RequestChatIds, content \in RequestContents, failAt \in 0..4 :
          LET r == stream_message(chats, messages, nextId, chat_id, content, failAt)
          IN  /\ req' = [req EXCEPT ![t] = [chat_id |-> chat_id, content |-> content]]
              /\ prior' = [prior EXCEPT ![t] = Len(get_messages(messages, chat_id))]
              /\ status' = [status EXCEPT ![t] = r.status]
              /\ messages' = r.messages
              /\ nextId' = r.nextId
              /\ mid' = [mid EXCEPT ![t] = r.mid]
              /\ context' = [context EXCEPT ![t] = r.context]
              /\ log' = [log EXCEPT ![t] = r.log]
              /\ titleTask' = [titleTask EXCEPT ![t] =
                                  IF r.title THEN "scheduled" ELSE "none"]
              /\ pc' = [pc EXCEPT ![t] = IF r.status = 200 THEN "start" ELSE "rejected"]
    /\ UNCHANGED <<chats, aiConfigured, sent, acc, err, srcTokens, srcState,
                   chunks, adapterDone, titleCall, titleRaised, respVars>>

\* -------------------------------------------------------- generate_stream
\* One action is the generator's code from one suspension point to the next:
\* "start" (not yet pulled), "chunk" (inside generate_streaming_response,
\* awaiting the completion API), "sleep" (the token event is out, in
\* asyncio.sleep), "error_sent" (the error event is out).

\* an except block that sends nothing
ExceptBlock_Silent(ms, lg, m, e) ==
    [messages |-> ms, err |-> e, pc |-> "error_sent", log |-> lg]

\* an except block that stores its note before it sends the error event
ExceptBlock_WriteFirst(ms, lg, m, e) ==
    LET w == update_message_content(ms, m, ErrorNote(e), FALSE, "ok")
    IN  [messages |-> w.rows, err |-> e, pc |-> "error_sent",
         log |-> lg \o <<LogUpdate(m, ErrorNote(e), FALSE, w),
                         StreamEvent("error", ErrorEventContent(e), m)>>]

\* the except block, up to its yield
ExceptBlock(ms, lg, m, e) ==
    [messages |-> ms, err |-> e, pc |-> "error_sent",
     log |-> Append(lg, StreamEvent("error", ErrorEventContent(e), m))]

\* the completion signal sent before the final update
FinalUpdate_EmitFirst(ms, lg, m, accumulated_content, up) ==
    LET w == update_message_content(ms, m, accumulated_content, FALSE, up)
        lg1 == Append(lg, StreamEvent("complete", "", m))
    IN  IF w.raised
        THEN ExceptBlock(w.rows, Append(lg1, LogUpdate(m, accumulated_content, FALSE, w)),
                         m, w.e)
        ELSE [messages |-> w.rows, err |-> "", pc |-> "done",
              log |-> Append(lg1, LogUpdate(m, accumulated_content, FALSE, w))]

\* after the loop: "Final update - mark as complete", "Send completion signal"
FinalUpdate(ms, lg, m, accumulated_content, up) ==
    LET w == update_message_content(ms, m, accumulated_content, FALSE, up)
    IN  IF w.raised
        THEN ExceptBlock(w.rows, Append(lg, LogUpdate(m, accumulated_content, FALSE, w)),
                         m, w.e)
        ELSE [messages |-> w.rows, err |-> "", pc |-> "done",
              log |-> lg \o <<LogUpdate(m, accumulated_content, FALSE, w),
                              StreamEvent("complete", "", m)>>]

\* a loop body that keeps only the last token
TokenStep_Overwrite(lg, m, accumulated_content, token) ==
    [acc |-> token, log |-> Append(lg, StreamEvent("token", token, m))]

\* the loop body up to its yield: accumulate, "Send token to client"
TokenStep(lg, m, accumulated_content, token) ==
    [acc |-> accumulated_content \o token,
     log |-> Append(lg, StreamEvent("token", token, m))]

\* the loop body after asyncio.sleep, then the next iteration's pull
AfterSleep(ms, lg, m, accumulated_content, exhausted, up1, up2) ==
    LET due == CheckpointDue(accumulated_content)
        w == update_message_content(ms, m, accumulated_content, TRUE, up1)
        ms1 == IF due THEN w.rows ELSE ms
        lg1 == IF due
               THEN Append(lg, LogUpdate(m, accumulated_content, TRUE, w))
               ELSE lg
    IN  IF due /\ w.raised THEN ExceptBlock(ms1, lg1, m, w.e)
        ELSE IF exhausted THEN FinalUpdate(ms1, lg1, m, accumulated_content, up2)
        ELSE [messages |-> ms1, err |-> "", pc |-> "chunk", log |-> lg1]

\* first pull: get_ai_service(), then the completion request is sent
GenStart(t) ==
    /\ pc[t] = "start"
    /\ IF aiConfigured
       THEN /\ pc' = [pc EXCEPT ![t] = "chunk"]
            /\ srcState' = [srcState EXCEPT ![t] = "open"]
            /\ sent' = [sent EXCEPT ![t] =
                            Some(CompletionMessages(context[t], req[t].content))]
            /\ UNCHANGED <<log, err>>
       ELSE LET x == ExceptBlock(messages, log[t], mid[t], AiUnavailableErr)
            IN  /\ pc' = [pc EXCEPT ![t] = x.pc]
                /\ log' = [log EXCEPT ![t] = x.log]
                /\ err' = [err EXCEPT ![t] = x.err]
                /\ UNCHANGED <<srcState, sent>>
    /\ UNCHANGED <<storeVars, aiConfigured, req, status, mid, context, acc,
                   srcTokens, chunks, adapterDone, prior, titleVars, respVars>>

\* the completion API delivers a chunk whose delta.content is a token
ChunkToken(t) ==
    /\ pc[t] = "chunk" /\ chunks[t] < MaxChunks
    /\ \E token \in Tokens :
          LET x == TokenStep(log[t], mid[t], acc[t], token)
          IN  /\ acc' = [acc EXCEPT ![t] = x.acc]
              /\ log' = [log EXCEPT ![t] = x.log]
              /\ srcTokens' = [srcTokens EXCEPT ![t] = Append(@, token)]
    /\ chunks' = [chunks EXCEPT ![t] = @ + 1]
    /\ pc' = [pc EXCEPT ![t] = "sleep"]
    /\ UNCHANGED <<storeVars, aiConfigured, req, status, mid, context, sent, err,
                   srcState, adapterDone, prior, titleVars, respVars>>

\* the completion API delivers a chunk whose delta.content is None
ChunkEmpty(t) ==
    /\ pc[t] = "chunk" /\ chunks[t] < MaxChunks
    /\ chunks' = [chunks EXCEPT ![t] = @ + 1]
    /\ UNCHANGED <<storeVars, aiConfigured, pc, req, status, mid, context, sent, acc,
                   err, srcTokens, srcState, adapterDone, log, prior, titleVars,
                   respVars>>

\* the completion stream ends: generate_streaming_response returns
ChunkEnd(t) ==
    /\ pc[t] = "chunk"
    /\ srcState' = [srcState EXCEPT ![t] = "ended"]
    /\ \E up \in StoreAnswers :
          LET x == FinalUpdate(messages, log[t], mid[t], acc[t], up)
          IN  /\ messages' = x.messages
              /\ log' = [log EXCEPT ![t] = x.log]
              /\ err' = [err EXCEPT ![t] = x.err]
              /\ pc' = [pc EXCEPT ![t] = x.pc]
    /\ UNCHANGED <<chats, nextId, aiConfigured, req, status, mid, context, sent, acc,
                   srcTokens, chunks, adapterDone, prior, titleVars, respVars>>

\* the completion request or stream raises: generate_streaming_response
\* catches it and yields its apology as one more token
ChunkFail(t) ==
    /\ pc[t] = "chunk"
    /\ srcState' = [srcState EXCEPT ![t] = "failed"]
    /\ adapterDone' = [adapterDone EXCEPT ![t] = TRUE]
    /\ LET x == TokenStep(log[t], mid[t], acc[t], Apology(ApiErr))
       IN  /\ acc' = [acc EXCEPT ![t] = x.acc]
           /\ log' = [log EXCEPT ![t] = x.log]
    /\ pc' = [pc EXCEPT ![t] = "sleep"]
    /\ UNCHANGED <<storeVars, aiConfigured, req, status, mid, context, sent, err,
                   srcTokens, chunks, prior, titleVars, respVars>>

\* asyncio.sleep returns: the checkpoint if due, then the next pull
Wake(t) ==
    /\ pc[t] = "sleep"
    /\ \E up1 \in StoreAnswers, up2 \in StoreAnswers :
          LET x == AfterSleep(messages, log[t], mid[t], acc[t], adapterDone[t],
                              up1, up2)
          IN  /\ messages' = x.messages
              /\ log' = [log EXCEPT ![t] = x.log]
              /\ err' = [err EXCEPT ![t] = x.err]
              /\ pc' = [pc EXCEPT ![t] = x.pc]
    /\ UNCHANGED <<chats, nextId, aiConfigured, req, status, mid, context, sent, acc,
                   srcTokens, srcState, chunks, adapterDone, prior, titleVars,
                   respVars>>

\* the response pulls again after the error event: "Update database with error"
ResumeError(t) ==
    /\ pc[t] = "error_sent"
    /\ \E up \in StoreAnswers :
          LET w == update_message_content(messages, mid[t], ErrorNote(err[t]),
                                          FALSE, up)
          IN  /\ messages' = w.rows
              /\ log' = [log EXCEPT ![t] =
                            Append(@, LogUpdate(mid[t], ErrorNote(err[t]), FALSE, w))]
              /\ pc' = [pc EXCEPT ![t] = IF w.raised THEN "raised" ELSE "done"]
    /\ UNCHANGED <<chats, nextId, aiConfigured, req, status, mid, context, sent, acc,
                   err, srcTokens, srcState, chunks, adapterDone, prior,
                   titleVars, respVars>>

\* the client goes away: the response is cancelled where it is suspended and
\* the generator is never resumed (CancelledError is not an Exception)
Disconnect(t) ==
    /\ pc[t] \in {"start", "chunk", "sleep", "error_sent"}
    /\ pc' = [pc EXCEPT ![t] = "cancelled"]
    /\ UNCHANGED <<storeVars, aiConfigured, req, status, mid, context, sent, acc, err,
                   srcTokens, srcState, chunks, adapterDone, log, prior,
                   titleVars, respVars>>

\* ---------------------------------------------- generate_and_update_title
\* The background task.  `answer` is None when the title completion raised,
\* else Some(message.content).  Every exception is caught and printed.
generate_and_update_title(cs, chat_id, configured, answer, up) ==
    IF ~configured
    THEN [chats |-> cs, call |-> None, raised |-> FALSE]
    ELSE LET r == generate_chat_title(answer)
             w == update_chat_title(cs, chat_id, r.rows, up)
         IN  IF r.raised
             THEN [chats |-> cs, raised |-> FALSE,
                   call |-> Some([answer |-> answer, ret |-> None])]
             ELSE [chats |-> w.rows, raised |-> FALSE,
                   call |-> Some([answer |-> answer, ret |-> Some(r.rows)])]

TitleTask(t) ==
    /\ titleTask[t] = "scheduled"
    /\ \E answer \in {None} \cup {Some(c) : c \in TitleContents}, up \in BOOLEAN :
          LET x == generate_and_update_title(chats, req[t].chat_id, aiConfigured,
                                             answer, up)
          IN  /\ chats' = x.chats
              /\ titleCall' = [titleCall EXCEPT ![t] = x.call]
              /\ titleRaised' = [titleRaised EXCEPT ![t] = x.raised]
    /\ titleTask' = [titleTask EXCEPT ![t] = "done"]
    /\ UNCHANGED <<messages, nextId, aiConfigured, turnVars, respVars>>

\* ---------------------------------------------------- /api/chats/{id}
\* an answer of GET or DELETE /api/chats/{chat_id}: `existed` is whether the
\* chat was in the store when the request came, `up` whether the store
\* answered the handler's calls
Answer(op, existed, up, code) ==
    [op |-> op, existed |-> existed, up |-> up, status |-> code]

\* the status of the endpoint get_chat_with_messages; upChat and upMessages
\* are whether the store answers db.get_chat and db.get_messages
get_chat_with_messages(cs, ms, chat_id, upChat, upMessages) ==
    IF get_chat(cs, chat_id, upChat) = None THEN 404
    ELSE IF ~upMessages THEN 500
    ELSE 200

\* the status of the endpoint delete_chat
delete_chat_endpoint(cs, chat_id, up) ==
    IF ~delete_chat(cs, chat_id, up) THEN 404 ELSE 200

GetChat(chat_id) ==
    /\ \E upChat \in BOOLEAN, upMessages \in BOOLEAN :
          answered' = Some(Answer("get", chat_id \in DOMAIN chats,
                                  upChat /\ upMessages,
                                  get_chat_with_messages(chats, messages, chat_id,
                                                         upChat, upMessages)))
    /\ UNCHANGED <<storeVars, aiConfigured, turnVars, titleVars, listed>>

\* the messages of a deleted chat go with it (ON DELETE CASCADE)
DeleteChat(chat_id) ==
    /\ \E up \in BOOLEAN :
          /\ IF delete_chat(chats, chat_id, up)
             THEN /\ chats' = [c \in DOMAIN chats \ {chat_id} |-> chats[c]]
                  /\ messages' = SelectSeq(messages, LAMBDA m : m.chat_id # chat_id)
             ELSE UNCHANGED <<chats, messages>>
          /\ answered' = Some(Answer("delete", chat_id \in DOMAIN chats, up,
                                     delete_chat_endpoint(chats, chat_id, up)))
    /\ UNCHANGED <<nextId, aiConfigured, turnVars, titleVars, listed>>

\* --------------------------------------------------------- POST /api/chats
\* ChatCreate: title: Optional[str] = "New Chat".  `field` is None when the
\* body has no title, else Some(v) with v None (null) or Some(text)
ChatCreate(field) == IF field = None THEN Some("New Chat") ELSE field[1]

CreateTitleFields == {None, Some(None), Some(Some("")), Some(Some("Trip plan"))}

\* a create_chat that passes the title on as it came
CreateChatTitle_AsGiven(title) ==
    IF title = None THEN "" ELSE title[1]

\* chat_data.title or "New Chat"
CreateChatTitle(title) ==
    IF title = None \/ title[1] = "" THEN "New Chat" ELSE title[1]

\* the ids the store gives to new chats
NewChatIds == 3..(2 + MaxCreated)

\* the endpoint create_chat: one inserted row, or 500 when db.create_chat
\* raises
CreateChat ==
    /\ \E id \in NewChatIds, field \in CreateTitleFields, up \in BOOLEAN :
          /\ id \notin DOMAIN chats
          /\ \A j \in NewChatIds : j < id => j \in DOMAIN chats
          /\ IF up
             THEN chats' = [c \in DOMAIN chats \cup {id} |->
                              IF c = id
                              THEN Chat(id, CreateChatTitle(ChatCreate(field)), id)
                              ELSE chats[c]]
             ELSE UNCHANGED chats
          /\ answered' = Some(Answer("create", FALSE, up, IF up THEN 200 ELSE 500))
    /\ UNCHANGED <<messages, nextId, aiConfigured, turnVars, titleVars, listed>>

Next ==
    \/ \E t \in Turns :
          \/ StreamMessage(t)
          \/ GenStart(t)
          \/ ChunkToken(t)
          \/ ChunkEmpty(t)
          \/ ChunkEnd(t)
          \/ ChunkFail(t)
          \/ Wake(t)
          \/ ResumeError(t)
          \/ Disconnect(t)
          \/ TitleTask(t)
    \/ \E c \in ChatIds : DeleteChat(c)

Spec == Init /\ [][Next]_vars

\* the chat endpoints, with the set-up of a stream request and the title
\* task it schedules
NextChats ==
    \/ CreateChat
    \/ \E c \in RequestChatIds : GetChat(c)
    \/ \E c \in ChatIds : DeleteChat(c)
    \/ \E t \in Turns :
          \/ StreamMessage(t)
          \/ TitleTask(t)

SpecChats == Init /\ [][NextChats]_vars

\* ------------------------------------------- two requests on the same chat
\* Two stream requests with valid content for chat 1, whose set-up is
\* answered by the store and whose tokens are not empty, with every
\* interleaving of their generators.
Turns2 == {"t1", "t2"}

InitTwo ==
    /\ chats = [c \in ChatIds |-> Chat(c, "New Chat", c)]
    /\ messages = PriorRows(2, 2, 1)
    /\ nextId = 3
    /\ aiConfigured = TRUE
    /\ pc = [t \in Turns2 |-> "idle"]
    /\ req = [t \in Turns2 |-> [chat_id |-> 0, content |-> ""]]
    /\ status = [t \in Turns2 |-> 0]
    /\ mid = [t \in Turns2 |-> 0]
    /\ context = [t \in Turns2 |-> <<>>]
    /\ sent = [t \in Turns2 |-> None]
    /\ acc = [t \in Turns2 |-> ""]
    /\ err = [t \in Turns2 |-> ""]
    /\ srcTokens = [t \in Turns2 |-> <<>>]
    /\ srcState = [t \in Turns2 |-> "closed"]
    /\ chunks = [t \in Turns2 |-> 0]
    /\ adapterDone = [t \in Turns2 |-> FALSE]
    /\ log = [t \in Turns2 |-> <<>>]
    /\ prior = [t \in Turns2 |-> 0]
    /\ titleTask = [t \in Turns2 |-> "none"]
    /\ titleCall = [t \in Turns2 |-> None]
    /\ titleRaised = [t \in Turns2 |-> FALSE]
    /\ listed = None
    /\ answered = None

NextTwo ==
    \E t \in Turns2 :
        \/ /\ StreamMessage(t)
           /\ req'[t] = [chat_id |-> 1, content |-> "hello"]
           /\ status'[t] = 200
        \/ GenStart(t)
        \/ /\ ChunkToken(t)
           /\ acc'[t] # acc[t]
        \/ ChunkEnd(t)
        \/ Wake(t)
        \/ ResumeError(t)

SpecTwo == InitTwo /\ [][NextTwo]_vars

\* ---------------------------------------- the life of a chat, three requests
\* Three stream requests with valid content for chat 1, numbered as they
\* arrive, with any failure of the set-up, one after the other or while the
\* streams of the others are open (a stream here delivers at most one token
\* and its store writes are answered); and the deletion of the chat.
Turns3 == {"t1", "t2", "t3"}
Arrival == [t \in Turns3 |-> CASE t = "t1" -> 1 [] t = "t2" -> 2 [] OTHER -> 3]

InitTitle ==
    /\ chats = [c \in ChatIds |-> Chat(c, "New Chat", c)]
    /\ \E p \in 0..MaxPrior :
          /\ messages = PriorRows(2, 2, 1) \o PriorRows(1, p, 3)
          /\ nextId = 3 + p
    /\ aiConfigured = TRUE
    /\ pc = [t \in Turns3 |-> "idle"]
    /\ req = [t \in Turns3 |-> [chat_id |-> 0, content |-> ""]]
    /\ status = [t \in Turns3 |-> 0]
    /\ mid = [t \in Turns3 |-> 0]
    /\ context = [t \in Turns3 |-> <<>>]
    /\ sent = [t \in Turns3 |-> None]
    /\ acc = [t \in Turns3 |-> ""]
    /\ err = [t \in Turns3 |-> ""]
    /\ srcTokens = [t \in Turns3 |-> <<>>]
    /\ srcState = [t \in Turns3 |-> "closed"]
    /\ chunks = [t \in Turns3 |-> 0]
    /\ adapterDone = [t \in Turns3 |-> FALSE]
    /\ log = [t \in Turns3 |-> <<>>]
    /\ prior = [t \in Turns3 |-> 0]
    /\ titleTask = [t \in Turns3 |-> "none"]
    /\ titleCall = [t \in Turns3 |-> None]
    /\ titleRaised = [t \in Turns3 |-> FALSE]
    /\ listed = None
    /\ answered = None

NextTitle ==
    \/ \E t \in Turns3 :
          \/ /\ \A u \in Turns3 : Arrival[u] < Arrival[t] => pc[u] # "idle"
             /\ StreamMessage(t)
             /\ req'[t] = [chat_id |-> 1, content |-> "hello"]
          \/ GenStart(t)
          \/ /\ ChunkToken(t)
             /\ chunks[t] = 0
             /\ acc'[t] = "Hi"
          \/ /\ ChunkEnd(t)
             /\ pc'[t] = "done"
          \/ /\ Wake(t)
             /\ pc'[t] = "chunk"
          \/ Disconnect(t)
    \/ /\ DeleteChat(1)
       /\ answered'[1].status = 200

SpecTitle == InitTitle /\ [][NextTitle]_vars

\* ============================================================== properties
Events(t) == SelectSeq(log[t], LAMBDA e : e.op = "event")
IsTerminal(e) == e.kind \in {"complete", "error"}
\* the response has pulled generate_stream until it returned or raised
Exhausted(t) == pc[t] \in {"done", "raised"}
NoStoreFailure(t) == \A i \in DOMAIN log[t] : log[t][i].ok
MessageRow(m) == messages[CHOOSE i \in DOMAIN messages : messages[i].id = m]

RECURSIVE Concat(_)
Concat(tokens) ==
    IF tokens = <<>> THEN "" ELSE tokens[1] \o Concat(Tail(tokens))

\* C1: a stream never sends an event after a terminal event ('complete' or
\* 'error'), and a stream pulled to exhaustion has sent exactly one terminal
\* event, as its last event -- whatever the tokens, wherever the completion
\* source fails and wherever a store write fails.
C1_OneTerminalEventLast ==
    \A t \in Turns :
        LET ev == Events(t)
        IN  /\ \A i \in 1..(Len(ev) - 1) : ~IsTerminal(ev[i])
            /\ Exhausted(t) => /\ Len(ev) >= 1
                               /\ IsTerminal(ev[Len(ev)])

\* a stream that sent tokens, lost a store write and was pulled to its end
C1_Witness ==
    \E t \in Turns :
        /\ Exhausted(t) /\ ~NoStoreFailure(t)
        /\ Len(Events(t)) >= 3

\* C2: on the normal path (the completion stream ends without failure, no
\* store call fails) a finished stream leaves in the placeholder the
\* concatenation of the tokens in the order yielded, with is_streaming false.
C2_NormalPathContent ==
    \A t \in Turns :
        (/\ pc[t] = "done" /\ srcState[t] = "ended" /\ NoStoreFailure(t)
         /\ HasRow(messages, mid[t]))
        => /\ MessageRow(mid[t]).content = Concat(srcTokens[t])
           /\ MessageRow(mid[t]).is_streaming = FALSE

\* two tokens, a checkpoint at 50 characters, then the final update
C2_Witness ==
    \E t \in Turns :
        /\ pc[t] = "done" /\ srcState[t] = "ended" /\ NoStoreFailure(t)
        /\ HasRow(messages, mid[t])
        /\ srcTokens[t] = <<"Hi", Tok48>>
        /\ Len(MessageRow(mid[t]).content) = CheckpointEvery

\* C3: when the completion source fails after tokens T1..Tk (here k >= 1),
\* the client gets exactly T1..Tk as token events and then exactly one error
\* event.
C3_SourceFailureEndsInError ==
    \A t \in Turns :
        (srcState[t] = "failed" /\ Len(srcTokens[t]) >= 1 /\ Exhausted(t))
        => LET ev == Events(t)
               k == Len(srcTokens[t])
           IN  /\ Len(ev) = k + 1
               /\ \A i \in 1..k : /\ ev[i].kind = "token"
                                  /\ ev[i].content = srcTokens[t][i]
               /\ ev[k + 1].kind = "error"

\* C4: after a failure during streaming with T1..Tk accumulated (here: a
\* store call of the stream fails, the completion source does not), once the
\* except block has stored its note the placeholder holds concat(T1..Tk)
\* followed by the failure note, with is_streaming false: the accumulated
\* text is not dropped.
C4_FailureKeepsAccumulated ==
    \A t \in Turns :
        (/\ pc[t] = "done" /\ err[t] # "" /\ srcState[t] # "failed"
         /\ HasRow(messages, mid[t]))
        => /\ MessageRow(mid[t]).is_streaming = FALSE
           /\ MessageRow(mid[t]).content = Concat(srcTokens[t]) \o ErrorNote(err[t])

\* C5: a 'complete' event is sent only right after the store has accepted
\* the final update (the whole accumulated text, is_streaming false) of the
\* placeholder, and never in a stream whose final update failed.
C5_CompleteAfterFinalUpdate ==
    \A t \in Turns : \A i \in DOMAIN log[t] :
        (log[t][i].op = "event" /\ log[t][i].kind = "complete")
        => /\ i > 1
           /\ log[t][i - 1] = LogWrite(mid[t], acc[t], FALSE, TRUE)
           /\ \A j \in DOMAIN log[t] :
                 ~(log[t][j].op = "write" /\ ~log[t][j].is_streaming /\ ~log[t][j].ok)

\* a completed stream that sent a token
C5_Witness ==
    \E t \in Turns :
        /\ pc[t] = "done" /\ Len(acc[t]) > 0
        /\ Events(t)[Len(Events(t))].kind = "complete"

\* C6: a stream request with a valid body for a chat id that is not in the
\* store is answered 404, sends no event and leaves the messages table as
\* it was.
C6_MissingChatRejected ==
    [][\A t \in Turns :
          (/\ pc[t] = "idle" /\ pc'[t] # "idle"
           /\ MessageCreateValid(req'[t].content)
           /\ req'[t].chat_id \notin DOMAIN chats)
          => /\ status'[t] = 404
             /\ pc'[t] = "rejected"
             /\ log'[t] = <<>>
             /\ messages' = messages
             /\ titleTask'[t] = "none"]_vars

\* a valid request for the unknown chat 0 was answered
C6_Witness ==
    \E t \in Turns :
        /\ pc[t] = "rejected" /\ req[t] = [chat_id |-> 0, content |-> "hello"]
        /\ status[t] = 404

\* C7: a stream request with empty content (here for a chat that exists) is
\* answered 400, writes nothing and sends no event.
C7_EmptyContentIs400 ==
    \A t \in Turns :
        (pc[t] # "idle" /\ req[t].content = "" /\ req[t].chat_id \in ChatIds)
        => /\ status[t] = 400
           /\ log[t] = <<>>

\* C8: a turn whose set-up completed has the title task scheduled exactly
\* when its fetched history without the placeholder has length 1; a turn on
\* a chat that held no message has it scheduled, a turn on a chat that held
\* one or more has not.  A request that was rejected schedules none.
C8_TitleScheduledOnFirstTurn ==
    \A t \in Turns :
        /\ status[t] = 200 =>
              /\ (titleTask[t] # "none") <=> (Len(context[t]) = 1)
              /\ prior[t] = 0 => titleTask[t] # "none"
              /\ prior[t] >= 1 => titleTask[t] = "none"
        /\ status[t] # 200 => titleTask[t] = "none"

\* the first turn of an empty chat, its title task scheduled
C8_Witness ==
    \E t \in Turns :
        status[t] = 200 /\ prior[t] = 0 /\ titleTask[t] = "scheduled"

\* C9: the title task never lets an exception escape; generate_chat_title
\* returns "New Chat" when the title completion fails; and a run of the task,
\* failed or not, changes no message, no stream event and no stream's
\* position.
C9_TitleFailureSwallowed ==
    /\ [](\A t \in Turns :
            /\ ~titleRaised[t]
            /\ (titleCall[t] # None /\ titleCall[t][1].answer = None)
               => titleCall[t][1].ret = Some("New Chat"))
    /\ [][\A t \in Turns :
            (titleTask[t] = "scheduled" /\ titleTask'[t] = "done")
            => /\ messages' = messages
               /\ UNCHANGED turnVars]_vars

\* a title task whose completion call failed, run while its stream is open
C9_Witness ==
    \E t \in Turns :
        /\ titleTask[t] = "done" /\ titleCall[t] # None
        /\ titleCall[t][1].answer = None
        /\ pc[t] = "sleep"

\* C11: when the store fails while a chat that exists is looked up or
\* deleted, the caller gets a storage error (500); a chat that exists is
\* never answered "not found" (404), by GET or DELETE /api/chats/{chat_id}
\* or by the stream endpoint (there: a chat that holds messages).
C11_StoreFailureIsNot404 ==
    /\ (answered # None /\ answered[1].existed) =>
          /\ ~answered[1].up => answered[1].status = 500
          /\ answered[1].status # 404
    /\ \A t \in Turns :
          (pc[t] = "rejected" /\ prior[t] > 0) => status[t] # 404

\* the request is over: its generator has returned, raised or been cancelled
StreamOver(t) == pc[t] \in {"done", "raised", "cancelled"}

\* C12: every placeholder a stream request has created ends with
\* is_streaming false, also when the client disconnects, the completion
\* source fails or a store write fails.  A request that is over writes no
\* more, so by then its placeholder (if the chat was not deleted) must be
\* terminal.
C12_PlaceholderReachesTerminal ==
    \A t \in Turns :
        (status[t] = 200 /\ StreamOver(t) /\ HasRow(messages, mid[t]))
        => ~MessageRow(mid[t]).is_streaming

IsPrefix(a, b) == Len(a) <= Len(b) /\ SubSeq(b, 1, Len(a)) = a

\* the update_message_content calls of a request that the store has applied
AppliedWrites(t) ==
    SelectSeq(log[t], LAMBDA e : e.op = "write" /\ (e.ok \/ e.kind = "lost"))

\* C13: the persisted content of the placeholder only grows: each write the
\* store applies, the one of the except block included, stores a content
\* that the content of the write applied before it is a prefix of.
C13_ContentGrowsMonotonically ==
    \A t \in Turns :
        LET w == AppliedWrites(t)
        IN  \A i \in 1..(Len(w) - 1) : IsPrefix(w[i].content, w[i + 1].content)

\* C14: a stream applies at most one write with is_streaming false to its
\* placeholder, and no write applied after it changes the content or the
\* flag -- also when the final update of the normal path fails.
C14_OneTerminalWrite ==
    \A t \in Turns :
        LET w == AppliedWrites(t)
        IN  /\ Cardinality({i \in DOMAIN w : ~w[i].is_streaming}) <= 1
            /\ \A i, j \in DOMAIN w :
                  (i < j /\ ~w[i].is_streaming)
                  => /\ w[j].content = w[i].content
                     /\ w[j].is_streaming = w[i].is_streaming

IsTokenEvent(e) == e.op = "event" /\ e.kind = "token"
IsErrorEvent(e) == e.op = "event" /\ e.kind = "error"
\* the write of the except block
IsNoteWrite(t, e) ==
    e.op = "write" /\ ~e.is_streaming /\ err[t] # "" /\ e.content = ErrorNote(err[t])

\* C15: on a failure during streaming the error event is sent before the
\* store write that records the failure is started: that write never comes
\* before the error event, and a stream with an error event that was pulled
\* to exhaustion has made that write, after the event.
C15_ErrorEventBeforeNoteWrite ==
    \A t \in Turns :
        /\ \A j \in DOMAIN log[t] :
              IsNoteWrite(t, log[t][j])
              => \E i \in 1..(j - 1) : IsErrorEvent(log[t][i])
        /\ (Exhausted(t) /\ \E i \in DOMAIN log[t] : IsErrorEvent(log[t][i]))
           => /\ IsNoteWrite(t, log[t][Len(log[t])])
              /\ IsErrorEvent(log[t][Len(log[t]) - 1])

\* a stream that sent a token, then failed, sent the error event and stored
\* the note
C15_Witness ==
    \E t \in Turns :
        /\ pc[t] = "done" /\ err[t] # "" /\ Len(Events(t)) >= 2
        /\ IsNoteWrite(t, log[t][Len(log[t])]) /\ log[t][Len(log[t])].ok

\* accumulated_content after the token event at place i of the log
AccAt(t, i) ==
    Concat([k \in 1..Len(SelectSeq(SubSeq(log[t], 1, i), IsTokenEvent)) |->
               SelectSeq(SubSeq(log[t], 1, i), IsTokenEvent)[k].content])
\* the loop body after the token event at place i has run to its end
PastSleep(t, i) == i < Len(log[t]) \/ pc[t] \notin {"sleep", "cancelled"}
IsCheckpoint(e) == e.op = "write" /\ e.is_streaming

\* C16: after a token is appended a checkpoint is written if and only if
\* the number of characters accumulated is then a multiple of 50 (a token
\* that jumps past a multiple of 50 causes none); a checkpoint writes the
\* text accumulated so far with is_streaming true; no write with
\* is_streaming false is followed by a checkpoint.
C16_CheckpointEveryFifty ==
    \A t \in Turns : \A i \in DOMAIN log[t] :
        /\ (IsTokenEvent(log[t][i]) /\ PastSleep(t, i))
           => ((i < Len(log[t]) /\ IsCheckpoint(log[t][i + 1]))
               <=> Len(AccAt(t, i)) % 50 = 0)
        /\ IsCheckpoint(log[t][i])
           => /\ i > 1 /\ IsTokenEvent(log[t][i - 1])
              /\ log[t][i].content = AccAt(t, i - 1)
              /\ log[t][i].message_id = mid[t]
        /\ (log[t][i].op = "write" /\ ~log[t][i].is_streaming)
           => \A j \in DOMAIN log[t] : j > i => ~IsCheckpoint(log[t][j])

\* two tokens of 48 characters: 96 characters accumulated, past 50, and no
\* checkpoint was written
C16_Witness ==
    \E t \in Turns :
        /\ pc[t] = "done" /\ srcTokens[t] = <<Tok48, Tok48>>
        /\ Len(acc[t]) = 96
        /\ \A i \in DOMAIN log[t] : ~IsCheckpoint(log[t][i])

\* C17: a stream request whose preconditions hold performs, in this order
\* and before any stream event is produced or the completion source is
\* opened: the store write of the user message, the store write of the empty
\* placeholder M with is_streaming true, the fetch of the chat's messages in
\* creation order; the context is that history without M and only M.
C17_SetUpOrder ==
    /\ [](\A t \in Turns :
            status[t] = 200
            => /\ Len(log[t]) >= 3
               /\ log[t][1] = LogInsert(mid[t] - 1, "user", req[t].content, FALSE, TRUE)
               /\ log[t][2] = LogInsert(mid[t], "assistant", "", TRUE, TRUE)
               /\ log[t][3] = LogFetch(TRUE)
               /\ mid[t] \notin {context[t][i].id : i \in DOMAIN context[t]})
    /\ [][\A t \in Turns :
            (pc[t] = "idle" /\ status'[t] = 200)
            => /\ Len(log'[t]) = 3
               /\ srcState'[t] = "closed" /\ sent'[t] = None
               /\ messages' = messages \o
                     <<Row(mid'[t] - 1, req'[t].chat_id, "user", req'[t].content, FALSE),
                       Row(mid'[t], req'[t].chat_id, "assistant", "", TRUE)>>
               /\ context'[t] =
                     SelectSeq(messages', LAMBDA m : /\ m.chat_id = req'[t].chat_id
                                                     /\ m.id # mid'[t])]_vars

\* a request on a chat that held two messages has been set up; the other
\* chat holds messages too
C17_Witness ==
    \E t \in Turns :
        /\ status[t] = 200 /\ pc[t] = "start" /\ Len(context[t]) = 3
        /\ \E i \in DOMAIN messages : messages[i].chat_id # req[t].chat_id

\* C20: the message list sent to the completion API is the system prompt,
\* then the persisted messages of the chat other than M in creation order,
\* then the new user turn; the text of the new user turn is in that list
\* exactly once.
C20_UserTurnSentOnce ==
    \A t \in Turns :
        sent[t] # None
        => LET ms == sent[t][1]
               n == Len(ms)
           IN  /\ n = Len(context[t]) + 2
               /\ ms[1] = SystemPrompt
               /\ \A i \in DOMAIN context[t] :
                     ms[i + 1] = [role |-> context[t][i].role,
                                  content |-> context[t][i].content]
               /\ ms[n] = [role |-> "user", content |-> req[t].content]
               /\ Cardinality({i \in DOMAIN ms :
                                  ms[i].content = req[t].content}) = 1

\* C18: when two stream requests run concurrently on the same chat, under
\* every interleaving each stream writes (checkpoints and terminal write)
\* only to its own placeholder and every event it sends carries its own
\* placeholder's id; a placeholder's row changes only in a step of its own
\* stream; and on the normal path a finished stream leaves in its
\* placeholder the concatenation of its own tokens alone.
C18_OwnPlaceholderOnly ==
    /\ [](\A t \in Turns2 :
            /\ \A i \in DOMAIN log[t] :
                  log[t][i].op \in {"write", "event"}
                  => log[t][i].message_id = mid[t]
            /\ \A u \in Turns2 : (u # t /\ mid[t] # 0) => mid[u] # mid[t]
            /\ (pc[t] = "done" /\ srcState[t] = "ended" /\ NoStoreFailure(t))
               => /\ MessageRow(mid[t]).content = Concat(srcTokens[t])
                  /\ ~MessageRow(mid[t]).is_streaming)
    /\ [][\A t \in Turns2 :
            (mid[t] # 0 /\ MessageRow(mid[t])' # MessageRow(mid[t]))
            => log'[t] # log[t]]_vars

\* both streams have finished on the normal path, with different tokens,
\* each with a checkpoint at 50 characters
C18_Witness ==
    /\ \A t \in Turns2 :
          pc[t] = "done" /\ srcState[t] = "ended" /\ NoStoreFailure(t)
    /\ srcTokens["t1"] = <<"Hi", Tok48>>
    /\ srcTokens["t2"] = <<Tok48, "Hi">>
    /\ MessageRow(mid["t1"]).content # MessageRow(mid["t2"]).content

\* C21: over the whole life of a chat, whether the stream requests on it
\* come one after the other or while other streams are open, and whether
\* their set-up succeeds or fails part-way, the title task is scheduled at
\* most once for the chat.
C21_TitleScheduledAtMostOnce ==
    \A c \in ChatIds :
        Cardinality({t \in Turns3 : titleTask[t] # "none" /\ req[t].chat_id = c}) <= 1

\* three requests on chat 1, which was empty: the set-up of one failed at
\* the user message, one had the title task scheduled and its stream is
\* open, one was set up meanwhile
C21_Witness ==
    \E t, u, v \in Turns3 :
        /\ req[t].chat_id = 1 /\ req[u].chat_id = 1 /\ req[v].chat_id = 1
        /\ status[t] = 500 /\ Len(log[t]) = 1
        /\ status[u] = 200 /\ titleTask[u] # "none" /\ pc[u] = "sleep"
        /\ status[v] = 200 /\ titleTask[v] = "none" /\ pc[v] = "start"
        /\ mid[u] < mid[v]

\* C19: every chat in the store has a non-empty title, after any sequence of
\* create_chat requests (title missing, null, empty or given), title tasks
\* (whatever the title completion answers) and stream requests.
C19_TitleNeverEmpty ==
    \A c \in DOMAIN chats : chats[c].title # ""

\* a chat created with an empty title and a title task whose completion
\* answered the empty string
C19_Witness ==
    /\ \E c \in NewChatIds : c \in DOMAIN chats /\ chats[c].title = "New Chat"
    /\ \E t \in Turns :
          /\ titleCall[t] # None /\ titleCall[t][1].answer = Some(Some(""))
          /\ req[t].chat_id \in DOMAIN chats

\* --------------------------------------------------------- GET /api/chats
\* The listing is studied on stores of up to MaxListChats chats: chat i was
\* last updated at (i * stride) % modulus and owns one message when i is a
\* multiple of period (no chat owns one when period is 0).
ListStrides == {1, 7}
ListModuli == {3, 101}
ListPeriods == {0, 1, 2, 3}

OwnsMessage(i, period) == period > 0 /\ i % period = 0

ListMessages(n, period) ==
    SelectSeq([i \in 1..n |-> Row(i, i, "user", "earlier", FALSE)],
              LAMBDA r : OwnsMessage(r.chat_id, period))

InitList ==
    /\ \E n \in 0..MaxListChats, stride \in ListStrides, modulus \in ListModuli,
          period \in ListPeriods :
          /\ chats = [i \in 1..n |-> Chat(i, "New Chat", (i * stride) % modulus)]
          /\ messages = ListMessages(n, period)
          /\ nextId = n + 1
    /\ aiConfigured = TRUE
    /\ pc = [t \in Turns |-> "idle"]
    /\ req = [t \in Turns |-> [chat_id |-> 0, content |-> ""]]
    /\ status = [t \in Turns |-> 0]
    /\ mid = [t \in Turns |-> 0]
    /\ context = [t \in Turns |-> <<>>]
    /\ sent = [t \in Turns |-> None]
    /\ acc = [t \in Turns |-> ""]
    /\ err = [t \in Turns |-> ""]
    /\ srcTokens = [t \in Turns |-> <<>>]
    /\ srcState = [t \in Turns |-> "closed"]
    /\ chunks = [t \in Turns |-> 0]
    /\ adapterDone = [t \in Turns |-> FALSE]
    /\ log = [t \in Turns |-> <<>>]
    /\ prior = [t \in Turns |-> 0]
    /\ titleTask = [t \in Turns |-> "none"]
    /\ titleCall = [t \in Turns |-> None]
    /\ titleRaised = [t \in Turns |-> FALSE]
    /\ listed = None
    /\ answered = None

\* the endpoint get_chats: the rows, or 500 when db.get_chats raises
ListChats ==
    /\ \E up \in BOOLEAN, tieAsc \in BOOLEAN :
          LET r == get_chats(chats, messages, up, tieAsc)
          IN  listed' = Some([status |-> IF r.raised THEN 500 ELSE 200,
                              chats |-> r.rows])
    /\ UNCHANGED <<storeVars, aiConfigured, turnVars, titleVars, answered>>

NextList == ListChats

SpecList == InitList /\ [][NextList]_vars

\* C10: whatever the store holds, the chats GET /api/chats returns each own
\* at least one message, are at most 50, and are in descending order of
\* updated_at.
C10_ListingFilteredCappedOrdered ==
    (listed # None /\ listed[1].status = 200)
    => LET out == listed[1].chats
       IN  /\ \A i \in DOMAIN out :
                 /\ out[i].id \in DOMAIN chats /\ chats[out[i].id] = out[i]
                 /\ \E k \in DOMAIN messages : messages[k].chat_id = out[i].id
           /\ Len(out) <= 50
           /\ \A i, j \in DOMAIN out :
                 i < j => out[i].updated_at >= out[j].updated_at

\* more than 50 chats own a message and exactly 50 are returned
C10_Witness ==
    /\ listed # None /\ listed[1].status = 200
    /\ Len(listed[1].chats) = 50
    /\ Cardinality({c \in DOMAIN chats :
                       \E k \in DOMAIN messages : messages[k].chat_id = c}) > 50

====
